---- MODULE Spec2Model ----
(***************************************************************************)
(* Model of src/src/watcher/watcherV4.ts (class WatcherV4): discovery of   *)
(* the newest Synapse V4 log file, the polling lifecycle with its one-shot *)
(* retry, and the scan / dedup / merge / notify pipeline of                *)
(* onLogChangedV4.                                                         *)
(***************************************************************************)
EXTENDS Integers, Sequences, FiniteSets, Bags, TLC

(***************************************************************************)
(* Bounds of the model.                                                    *)
(***************************************************************************)
\* total number of log lines ever written (timestamps 1..MaxLines)
MaxLines == 2
\* number of onLogChangedV4 calls whose readFile is outstanding at once
MaxInFlight == 2
\* modification times range over 1..MaxMtime
MaxMtime == 2

(***************************************************************************)
(* File names.  A name is a record of its stem, the characters between the *)
(* stem and the extension, and the extension, so that the name filter of   *)
(* line 74 is computed and not assumed.                                    *)
(***************************************************************************)
Digits == {"0", "1", "2", "3", "4", "5", "6", "7", "8", "9"}

NameMain == [stem |-> "systray_systrayv2", suffix |-> <<>>, ext |-> ".log"]
NameRotated == [stem |-> "SYSTRAY_SYSTRAYV2", suffix |-> <<"0", "1">>, ext |-> ".log"]
NameOther == [stem |-> "systray_systrayv2", suffix |-> <<"x">>, ext |-> ".log"]

\* the order in which readdirSync lists the names that exist
DirListing == <<NameOther, NameMain, NameRotated>>
FileNames == {DirListing[i] : i \in 1..Len(DirListing)}

\* String.prototype.toLowerCase as far as the /i flag of line 74 needs it
ToLower(s) ==
    CASE s = "SYSTRAY_SYSTRAYV2" -> "systray_systrayv2"
      [] s = ".LOG" -> ".log"
      [] OTHER -> s

\* /^systray_systrayv2\d*\.log$/i
NameMatches(n) ==
    /\ ToLower(n.stem) = "systray_systrayv2"
    /\ \A i \in 1..Len(n.suffix) : n.suffix[i] \in Digits
    /\ ToLower(n.ext) = ".log"

\* synapseV4LogPath = null
NoPath == [stem |-> "", suffix |-> <<>>, ext |-> ""]

(***************************************************************************)
(* findLatestSynapseV4LogFile, lines 65-93.  mtimes[n] = 0: n is absent.   *)
(***************************************************************************)
\* readdirSync(...).filter(...).map(...), lines 73-79
Candidates(mtimes) ==
    SelectSeq(DirListing, LAMBDA n : mtimes[n] > 0 /\ NameMatches(n))

\* candidates.sort((a, b) => b.mtime - a.mtime), line 86: a stable sort,
\* by insertion of c into a sequence already in descending order
RECURSIVE InsertDesc(_, _, _)
InsertDesc(sorted, c, mtimes) ==
    IF sorted = <<>> THEN <<c>>
    ELSE IF mtimes[Head(sorted)] >= mtimes[c]
         THEN <<Head(sorted)>> \o InsertDesc(Tail(sorted), c, mtimes)
         ELSE <<c>> \o sorted

RECURSIVE SortDesc(_, _)
SortDesc(cands, mtimes) ==
    IF cands = <<>> THEN <<>>
    ELSE InsertDesc(SortDesc(SubSeq(cands, 1, Len(cands) - 1), mtimes),
                    cands[Len(cands)], mtimes)

\* a mutant of the sort: ascending order, the oldest candidate first
RECURSIVE InsertAsc(_, _, _)
InsertAsc(sorted, c, mtimes) ==
    IF sorted = <<>> THEN <<c>>
    ELSE IF mtimes[Head(sorted)] <= mtimes[c]
         THEN <<Head(sorted)>> \o InsertAsc(Tail(sorted), c, mtimes)
         ELSE <<c>> \o sorted

RECURSIVE SortAsc(_, _)
SortAsc(cands, mtimes) ==
    IF cands = <<>> THEN <<>>
    ELSE InsertAsc(SortAsc(SubSeq(cands, 1, Len(cands) - 1), mtimes),
                   cands[Len(cands)], mtimes)

SortCandidates(cands, mtimes) == SortDesc(cands, mtimes)

\* The value the method leaves in synapseV4LogPath, and whether an exception
\* leaves the method.  ioError: readdirSync or statSync throws (lines 73, 77),
\* which the catch of line 90 absorbs with the path still null (line 66).
findLatestSynapseV4LogFile(exists, mtimes, ioError) ==
    IF ~exists THEN [path |-> NoPath, threw |-> FALSE]
    ELSE IF ioError THEN [path |-> NoPath, threw |-> FALSE]
    ELSE IF Candidates(mtimes) = <<>> THEN [path |-> NoPath, threw |-> FALSE]
    ELSE [path |-> SortCandidates(Candidates(mtimes), mtimes)[1], threw |-> FALSE]

(***************************************************************************)
(* Log text.  A log is a sequence of lines; every line starts with its     *)
(* bracketed timestamp, may hold one of the keywords of line 104, and ends *)
(* with a body of tokens.  Tokens: LB and RB are the characters [ and ],   *)
(* DEV is the text of one device object free of brackets, OPEN and CLOSE   *)
(* are the two halves of a device object around a nested array, JUNK is    *)
(* text that is no JSON, TS is the bracketed timestamp of a following line.*)
(***************************************************************************)
\* the device objects that occur in logs (LoggedDeviceInfoV4, lines 7-23);
\* "" stands for an absent string, hasBattery is "true", "false" or "absent"
RawDevices == <<
    [serialNumber |-> "A", deviceContainerId |-> "", hasBattery |-> "true",
     hasPowerStatus |-> TRUE, level |-> 50, chargingStatus |-> "Charging",
     nameEn |-> "Mouse", productNameEn |-> "Viper"],
    [serialNumber |-> "A", deviceContainerId |-> "X", hasBattery |-> "true",
     hasPowerStatus |-> TRUE, level |-> 60, chargingStatus |-> "NoCharge_BatteryFull",
     nameEn |-> "", productNameEn |-> "Viper"],
    [serialNumber |-> "", deviceContainerId |-> "C", hasBattery |-> "true",
     hasPowerStatus |-> FALSE, level |-> 0, chargingStatus |-> "",
     nameEn |-> "", productNameEn |-> ""],
    [serialNumber |-> "A", deviceContainerId |-> "", hasBattery |-> "false",
     hasPowerStatus |-> TRUE, level |-> 10, chargingStatus |-> "Charging",
     nameEn |-> "Dock", productNameEn |-> ""],
    [serialNumber |-> "", deviceContainerId |-> "", hasBattery |-> "true",
     hasPowerStatus |-> TRUE, level |-> 20, chargingStatus |-> "Charging",
     nameEn |-> "Ghost", productNameEn |-> ""],
    [serialNumber |-> "C", deviceContainerId |-> "", hasBattery |-> "absent",
     hasPowerStatus |-> TRUE, level |-> 30, chargingStatus |-> "Charging",
     nameEn |-> "Pad", productNameEn |-> ""],
    [serialNumber |-> "UNKNOWN", deviceContainerId |-> "X", hasBattery |-> "true",
     hasPowerStatus |-> TRUE, level |-> 40, chargingStatus |-> "Charging",
     nameEn |-> "Stray", productNameEn |-> ""] >>

LB == [k |-> "LB", d |-> 0]
RB == [k |-> "RB", d |-> 0]
JUNK == [k |-> "JUNK", d |-> 0]
OPEN == [k |-> "OPEN", d |-> 0]
CLOSE == [k |-> "CLOSE", d |-> 0]
TS == [k |-> "TS", d |-> 0]
Dev(i) == [k |-> "DEV", d |-> i]

\* the bodies a producer writes after the keyword of a record line
BodyA50 == <<LB, Dev(1), RB>>
BodyA60C == <<LB, Dev(2), Dev(3), RB>>
BodyNoBattery == <<LB, Dev(4), Dev(5), Dev(6), Dev(7), RB>>
BodyJunk == <<LB, JUNK, RB>>
BodyNested == <<LB, OPEN, LB, RB, CLOSE, RB>>
BodyTruncated == <<LB, Dev(1)>>
BodyNestedTruncated == <<LB, OPEN, LB, RB>>

\* what the producer has yet to flush of a body it has written in part
Remainder(body) ==
    IF body = BodyTruncated THEN <<RB>>
    ELSE IF body = BodyNestedTruncated THEN <<CLOSE, RB>>
    ELSE <<>>

\* index of the first token t in s, 0 when there is none
FirstIndex(s, t) ==
    IF \E i \in 1..Len(s) : s[i] = t
    THEN CHOOSE i \in 1..Len(s) : s[i] = t /\ \A j \in 1..(i - 1) : s[j] # t
    ELSE 0

(***************************************************************************)
(* The regex of line 104 and the exec loop of lines 106-110.               *)
(*   ^\[(?<timestamp>.+?)\]   the line's timestamp                         *)
(*   .*?(keyword).*?          a keyword, then the first [ of the same line *)
(*   (?<json>\[[\s\S]*?\])    lazily up to the first ] that follows, on    *)
(*                            this line or, failing that, the ] that ends  *)
(*                            the timestamp of the next line               *)
(* A match that runs into the next line consumes that line's start, so the *)
(* next match can begin at the line after it at the earliest.              *)
(***************************************************************************)
RECURSIVE MatchFrom(_, _)
MatchFrom(log, i) ==
    IF i > Len(log) THEN <<>>
    ELSE LET ln == log[i]
             lb == FirstIndex(ln.body, LB)
             rest == SubSeq(ln.body, lb, Len(ln.body))
             rb == FirstIndex(rest, RB)
         IN  IF ~ln.kw \/ lb = 0 THEN MatchFrom(log, i + 1)
             ELSE IF rb > 0
                  THEN <<[timestamp |-> ln.ts, jsonStr |-> SubSeq(rest, 1, rb)]>>
                       \o MatchFrom(log, i + 1)
             ELSE IF i < Len(log)
                  THEN <<[timestamp |-> ln.ts, jsonStr |-> rest \o <<TS>>]>>
                       \o MatchFrom(log, i + 2)
             ELSE <<>>

Matches(log) == MatchFrom(log, 1)

\* JSON.parse(last.jsonStr), line 126: the text is an array literal exactly
\* when it is [ , bracket-free device objects, ] ; anything else throws
JsonParse(jsonStr) ==
    LET n == Len(jsonStr)
        ok == /\ n >= 2
              /\ jsonStr[1] = LB
              /\ jsonStr[n] = RB
              /\ \A i \in 2..(n - 1) : jsonStr[i].k = "DEV"
    IN  [ok |-> ok,
         value |-> IF ok THEN [i \in 1..(n - 2) |-> RawDevices[jsonStr[i + 1].d]]
                   ELSE <<>>]

\* a mutant of line 117: the first match is taken
FirstMatch(matches) == matches[1]

\* which of the matches line 117 takes
LastMatch(matches) == matches[Len(matches)]

(***************************************************************************)
(* The merge of lines 136-150.                                             *)
(***************************************************************************)
\* line 138
HandleOf(device) ==
    IF device.serialNumber # "" THEN device.serialNumber
    ELSE IF device.deviceContainerId # "" THEN device.deviceContainerId
    ELSE "UNKNOWN"

\* a mutant of line 137: no filter
NoBatteryFilter(device) == TRUE

\* the filter of line 137
HasBatteryFilter(device) == device.hasBattery = "true"

\* the record of lines 141-148
DeviceRecord(device, shownDeviceHandle) ==
    [name |-> IF device.nameEn # "" THEN device.nameEn
              ELSE IF device.productNameEn # "" THEN device.productNameEn
              ELSE "Unknown Device",
     handle |-> HandleOf(device),
     isConnected |-> TRUE,
     batteryPercentage |-> IF device.hasPowerStatus THEN device.level ELSE 0,
     isCharging |-> device.hasPowerStatus /\ device.chargingStatus = "Charging",
     isSelected |-> shownDeviceHandle = HandleOf(device) \/ shownDeviceHandle = ""]

\* new Map(): the store before the first merge
EmptyMap == [h \in {} |-> 0]

\* Map.prototype.set, line 141
MapSet(map, key, value) ==
    [h \in DOMAIN map \cup {key} |-> IF h = key THEN value ELSE map[h]]

\* a mutant of the set: the map is cleared before the entry is written
MapSetCleared(map, key, value) ==
    [h \in {key} |-> value]

StoreSet(map, key, value) == MapSet(map, key, value)

\* a mutant of line 139: a device without identifier is stored like any other
RECURSIVE MergeDevicesKeepUnknown(_, _, _)
MergeDevicesKeepUnknown(map, batch, shownDeviceHandle) ==
    IF batch = <<>> THEN map
    ELSE MergeDevicesKeepUnknown(
             StoreSet(map, HandleOf(Head(batch)),
                      DeviceRecord(Head(batch), shownDeviceHandle)),
             Tail(batch), shownDeviceHandle)

\* the forEach of lines 137-150 over the filtered devices, in order
RECURSIVE MergeDevices(_, _, _)
MergeDevices(map, batch, shownDeviceHandle) ==
    IF batch = <<>> THEN map
    ELSE LET device == Head(batch)
             next == IF HandleOf(device) = "UNKNOWN" THEN map
                     ELSE StoreSet(map, HandleOf(device),
                                   DeviceRecord(device, shownDeviceHandle))
         IN  MergeDevices(next, Tail(batch), shownDeviceHandle)

(***************************************************************************)
(* onLogChangedV4 after its await, lines 102-165: what one call does to    *)
(* latestParsedTimeStamp and devices once readFile has settled, and        *)
(* whether it reaches trayManager.onDeviceUpdate (line 161).               *)
(***************************************************************************)
NoTimeStamp == 0

Cycle(outcome, marker, map, notified) ==
    [outcome |-> outcome, marker |-> marker, devices |-> map, notified |-> notified]

\* a mutant of lines 131-161: the map is rebuilt from the batch alone
AcceptAndReplace(last, marker, map, shownDeviceHandle) ==
    LET parsed == JsonParse(last.jsonStr)
    IN  IF ~parsed.ok THEN Cycle("MalformedPayload", last.timestamp, map, 0)
        ELSE Cycle("Merged", last.timestamp,
                   MergeDevices(EmptyMap, SelectSeq(parsed.value, HasBatteryFilter),
                                shownDeviceHandle),
                   1)

\* a mutant of lines 152-161: no notification when no device was updated
AcceptAndSkipNotify(last, marker, map, shownDeviceHandle) ==
    LET parsed == JsonParse(last.jsonStr)
        merged == MergeDevices(map, SelectSeq(parsed.value, HasBatteryFilter),
                               shownDeviceHandle)
    IN  IF ~parsed.ok THEN Cycle("MalformedPayload", last.timestamp, map, 0)
        ELSE Cycle("Merged", last.timestamp, merged, IF merged = map THEN 0 ELSE 1)

\* a mutant of lines 163-165: a parse failure empties the store
AcceptAndDropOnError(last, marker, map, shownDeviceHandle) ==
    LET parsed == JsonParse(last.jsonStr)
    IN  IF ~parsed.ok THEN Cycle("MalformedPayload", last.timestamp, EmptyMap, 0)
        ELSE Cycle("Merged", last.timestamp,
                   MergeDevices(map, SelectSeq(parsed.value, HasBatteryFilter),
                                shownDeviceHandle),
                   1)

\* a mutant of line 119: a record older than the marker is taken for an old one
AcceptAndKeepNewest(last, marker, map, shownDeviceHandle) ==
    LET parsed == JsonParse(last.jsonStr)
    IN  IF last.timestamp < marker THEN Cycle("NoNewData", marker, map, 0)
        ELSE IF ~parsed.ok THEN Cycle("MalformedPayload", last.timestamp, map, 0)
        ELSE Cycle("Merged", last.timestamp,
                   MergeDevices(map, SelectSeq(parsed.value, HasBatteryFilter),
                                shownDeviceHandle),
                   1)

\* line 124 comes before line 126: the marker is advanced, then the payload parsed
AcceptAndParse(last, marker, map, shownDeviceHandle) ==
    LET parsed == JsonParse(last.jsonStr)
    IN  IF ~parsed.ok THEN Cycle("MalformedPayload", last.timestamp, map, 0)
        ELSE Cycle("Merged", last.timestamp,
                   MergeDevices(map, SelectSeq(parsed.value, HasBatteryFilter),
                                shownDeviceHandle),
                   1)

\* a mutant of line 119: no record is taken for an old one
NeverDuplicate(marker, timestamp) == FALSE

\* line 119
IsDuplicate(marker, timestamp) == marker = timestamp

onLogChangedV4(readOk, log, marker, map, shownDeviceHandle) ==
    IF ~readOk THEN Cycle("FileReadFailure", marker, map, 0)
    ELSE LET matches == Matches(log)
         IN  IF matches = <<>> THEN Cycle("NoRecordFound", marker, map, 0)
             ELSE IF IsDuplicate(marker, LastMatch(matches).timestamp)
                  THEN Cycle("NoNewData", marker, map, 0)
             ELSE AcceptAndParse(LastMatch(matches), marker, map, shownDeviceHandle)

(***************************************************************************)
(* State.                                                                  *)
(***************************************************************************)
VARIABLES
    dirExists,              \* fs.existsSync(SynapseV4LogDir)
    mtimes,                 \* modification time of each file name, 0: no such file
    contents,               \* the lines of each log file
    written,                \* number of lines written so far: the last timestamp
    synapseV4LogPath,       \* line 29
    watcherRetryTimeout,    \* line 30: a timer id, 0 for null
    timers,                 \* the ids of the setTimeout timers that are pending
    polls,                  \* the fs.watchFile listeners that are armed, in order
    latestParsedTimeStamp,  \* line 95
    devices,                \* WatchProcess.devices, the device store
    inflight,               \* the onLogChangedV4 calls waiting on readFile
    stopRequested,          \* the last explicit request was stop()
    lastOp,                 \* the step taken last
    lastCycle,              \* the onLogChangedV4 call that finished last
    mergedLogs,             \* file contents on which a call merged and notified
    partialReads,           \* timestamps of records a call found malformed while
                            \* the producer had written their payload in part
    scenario                \* the run's inputs: the settings and the producer's script

vars == <<dirExists, mtimes, contents, written, synapseV4LogPath,
          watcherRetryTimeout, timers, polls, latestParsedTimeStamp, devices,
          inflight, stopRequested, lastOp, lastCycle, mergedLogs, partialReads,
          scenario>>

envVars == <<dirExists, mtimes, contents, written>>
controllerVars == <<synapseV4LogPath, watcherRetryTimeout, timers, polls>>
historyVars == <<lastCycle, mergedLogs, partialReads>>

LogNames == {n \in FileNames : NameMatches(n)}

\* the file the producer appends to; a rotated file is created empty
ActiveLog == NameMain

\* The inputs of a run: settings.shownDeviceHandle as getSettings() returns it
\* (lines 33, 99), whether the producer rotates its log (a second file of the
\* family comes and goes), and the script the producer follows line after
\* line, starting over at its end.
RecordLine(b) == [kw |-> TRUE, body |-> b]
NoiseLine == [kw |-> FALSE, body |-> BodyA50]
Scenarios == <<
    [shown |-> "", rotates |-> FALSE,
     script |-> <<RecordLine(BodyA50), RecordLine(BodyA60C)>>],
    [shown |-> "C", rotates |-> FALSE,
     script |-> <<RecordLine(BodyA60C), RecordLine(BodyNoBattery)>>],
    [shown |-> "A", rotates |-> FALSE,
     script |-> <<RecordLine(BodyJunk), RecordLine(BodyA50)>>],
    [shown |-> "C", rotates |-> FALSE,
     script |-> <<RecordLine(BodyTruncated), RecordLine(BodyNestedTruncated)>>],
    [shown |-> "", rotates |-> TRUE,
     script |-> <<NoiseLine>>] >>

ScriptLine(s, k) == Scenarios[s].script[((k - 1) % Len(Scenarios[s].script)) + 1]

NoCycle ==
    [outcome |-> "None", notified |-> 0, log |-> <<>>, shown |-> "",
     before |-> EmptyMap, after |-> EmptyMap,
     markerBefore |-> NoTimeStamp, markerAfter |-> NoTimeStamp,
     snapshot |-> EmptyMap]

Op(name, ioError) == [op |-> name, ioError |-> ioError]

\* the exception that leaves findLatestSynapseV4LogFile, if any, reaches the
\* catch of line 50 like the throw of line 40
LocatorThrows(ioError) == findLatestSynapseV4LogFile(dirExists, mtimes, ioError).threw

Init ==
    /\ dirExists = FALSE
    /\ mtimes = [n \in FileNames |-> 0]
    /\ contents = [n \in LogNames |-> <<>>]
    /\ written = 0
    /\ synapseV4LogPath = NoPath
    /\ watcherRetryTimeout = 0
    /\ timers = {}
    /\ polls = <<>>
    /\ latestParsedTimeStamp = NoTimeStamp
    /\ devices = EmptyMap
    /\ inflight = EmptyBag
    /\ stopRequested = FALSE
    /\ lastOp = Op("other", FALSE)
    /\ lastCycle = NoCycle
    /\ mergedLogs = {}
    /\ partialReads = {}
    /\ scenario \in 1..Len(Scenarios)

(***************************************************************************)
(* stop(), lines 57-63, as a function of the fields it reads.              *)
(***************************************************************************)
\* a mutant of fs.unwatchFile: no listener is removed
UnwatchNone(listeners, path) == listeners

\* fs.unwatchFile(path): removes every listener armed on path
UnwatchFile(listeners, path) ==
    SelectSeq(listeners, LAMBDA l : l.path # path)

\* a mutant of line 58: the poll is left armed
KeepPolls(listeners, path) == listeners

\* line 58
StopPolls(listeners, path) ==
    IF path # NoPath THEN UnwatchFile(listeners, path) ELSE listeners

\* a mutant of line 61: the retry timer is left pending
KeepTimers(pending, handle) == pending

\* line 61: clearTimeout of a handle whose timer has fired changes nothing
StopTimers(pending, handle) ==
    IF handle # 0 THEN pending \ {handle} ELSE pending

\* the call onLogChangedV4 makes at line 102: readFile of the path the field
\* holds at the time of the call, settled with the content the file has then
ReadFile(path, shown) ==
    [path |-> path, shown |-> shown,
     readOk |-> path \in LogNames /\ dirExists /\ mtimes[path] > 0,
     log |-> IF path \in LogNames /\ dirExists /\ mtimes[path] > 0
             THEN contents[path] ELSE <<>>]

\* setTimeout, line 53: a timer id that is not in use
NewTimer(pending) == CHOOSE t \in 1..(Cardinality(pending) + 1) : t \notin pending

(***************************************************************************)
(* start(), lines 32-55.  pending: the timers pending when start is        *)
(* entered; shown: the settings read at line 33; ioError: whether the      *)
(* directory listing throws.                                               *)
(***************************************************************************)
\* a mutant of line 53: a failed start schedules no retry
StartBodyNoRetry(pending, shown, ioError) ==
    LET polls1 == StopPolls(polls, synapseV4LogPath)
        timers1 == StopTimers(pending, watcherRetryTimeout)
        found == findLatestSynapseV4LogFile(dirExists, mtimes, ioError)
        polls2 == StopPolls(polls1, found.path)
    IN  IF found.path # NoPath /\ ~found.threw
        THEN /\ BagCardinality(inflight) < MaxInFlight
             /\ synapseV4LogPath' = found.path
             /\ polls' = Append(polls1, [path |-> found.path, shown |-> shown])
             /\ timers' = timers1
             /\ watcherRetryTimeout' = 0
             /\ inflight' = inflight (+) SetToBag({ReadFile(found.path, shown)})
        ELSE /\ synapseV4LogPath' = found.path
             /\ polls' = polls2
             /\ timers' = timers1
             /\ watcherRetryTimeout' = 0
             /\ inflight' = inflight

StartBody(pending, shown, ioError) ==
    LET polls1 == StopPolls(polls, synapseV4LogPath)            \* line 35
        timers1 == StopTimers(pending, watcherRetryTimeout)     \* line 35
        found == findLatestSynapseV4LogFile(dirExists, mtimes, ioError)
        \* line 52: stop() in the catch block, the path being what line 38 left
        polls2 == StopPolls(polls1, found.path)
        timers2 == StopTimers(timers1, 0)
    IN  IF found.path # NoPath /\ ~found.threw
        THEN \* lines 44-49: arm the poll, make the first scan
             /\ BagCardinality(inflight) < MaxInFlight
             /\ synapseV4LogPath' = found.path
             /\ polls' = Append(polls1, [path |-> found.path, shown |-> shown])
             /\ timers' = timers1
             /\ watcherRetryTimeout' = 0
             /\ inflight' = inflight (+) SetToBag({ReadFile(found.path, shown)})
        ELSE \* lines 50-53: stop() again, then schedule the retry
             /\ synapseV4LogPath' = found.path
             /\ polls' = polls2
             /\ timers' = timers2 \cup {NewTimer(timers2)}
             /\ watcherRetryTimeout' = NewTimer(timers2)
             /\ inflight' = inflight

\* an explicit start request
Start ==
    \E ioError \in BOOLEAN :
        /\ ioError => dirExists
        /\ StartBody(timers, Scenarios[scenario].shown, ioError)
        /\ stopRequested' = FALSE
        /\ lastOp' = Op("start", ioError)
        /\ UNCHANGED <<envVars, latestParsedTimeStamp, devices, historyVars, scenario>>

\* the retry timer of line 53 fires: () => this.start()
RetryFire ==
    \E t \in timers, ioError \in BOOLEAN :
        /\ ioError => dirExists
        /\ StartBody(timers \ {t}, Scenarios[scenario].shown, ioError)
        /\ lastOp' = Op("retry", ioError)
        /\ UNCHANGED <<envVars, latestParsedTimeStamp, devices, stopRequested,
                       historyVars, scenario>>

\* an explicit stop request, lines 57-63
Stop ==
    /\ polls' = StopPolls(polls, synapseV4LogPath)
    /\ timers' = StopTimers(timers, watcherRetryTimeout)
    /\ watcherRetryTimeout' = 0
    /\ stopRequested' = TRUE
    /\ lastOp' = Op("other", FALSE)
    /\ UNCHANGED <<envVars, synapseV4LogPath, latestParsedTimeStamp, devices,
                   inflight, historyVars, scenario>>

\* a mutant of lines 45-48: the listener resolves the newest log file again
TickReResolving ==
    \E i \in 1..Len(polls) :
        /\ BagCardinality(inflight) < MaxInFlight
        /\ synapseV4LogPath' = findLatestSynapseV4LogFile(dirExists, mtimes, FALSE).path
        /\ inflight' = inflight (+) SetToBag({ReadFile(synapseV4LogPath', polls[i].shown)})
        /\ lastOp' = Op("other", FALSE)
        /\ UNCHANGED <<envVars, watcherRetryTimeout, timers, polls,
                       latestParsedTimeStamp, devices, stopRequested, historyVars,
                       scenario>>

\* an armed listener fires, lines 45-48: a new onLogChangedV4 call
Tick ==
    \E i \in 1..Len(polls) :
        /\ BagCardinality(inflight) < MaxInFlight
        /\ inflight' = inflight (+) SetToBag({ReadFile(synapseV4LogPath, polls[i].shown)})
        /\ lastOp' = Op("other", FALSE)
        /\ UNCHANGED <<envVars, controllerVars, latestParsedTimeStamp, devices,
                       stopRequested, historyVars, scenario>>

\* the last line of a log is a record whose payload is written in part
TailIsPartial(log) ==
    log # <<>> /\ log[Len(log)].kw /\ Remainder(log[Len(log)].body) # <<>>

\* readFile settles and the call runs to its end, lines 102-165
ScanComplete ==
    \E scan \in BagToSet(inflight) :
        LET r == onLogChangedV4(scan.readOk, scan.log, latestParsedTimeStamp,
                                devices, scan.shown)
        IN  /\ inflight' = inflight (-) SetToBag({scan})
            /\ latestParsedTimeStamp' = r.marker
            /\ devices' = r.devices
            /\ lastCycle' =
                 [outcome |-> r.outcome, notified |-> r.notified,
                  log |-> scan.log, shown |-> scan.shown,
                  before |-> devices, after |-> r.devices,
                  markerBefore |-> latestParsedTimeStamp, markerAfter |-> r.marker,
                  snapshot |-> IF r.notified > 0 THEN r.devices ELSE EmptyMap]
            /\ mergedLogs' = IF r.outcome = "Merged"
                             THEN mergedLogs \cup {scan.log} ELSE mergedLogs
            /\ partialReads' = IF r.outcome = "MalformedPayload" /\ TailIsPartial(scan.log)
                                    /\ r.marker = scan.log[Len(scan.log)].ts
                               THEN partialReads \cup {r.marker} ELSE partialReads
            /\ lastOp' = Op("other", FALSE)
            /\ UNCHANGED <<envVars, controllerVars, stopRequested, scenario>>

(***************************************************************************)
(* The environment: the producer of the log and the directory.             *)
(***************************************************************************)
\* the next line of the script, after its timestamp
WriteLine ==
    \E n \in {ActiveLog} :
        /\ dirExists /\ mtimes[n] > 0
        /\ written < MaxLines
        /\ written' = written + 1
        /\ contents' = [contents EXCEPT ![n] =
                          Append(@, [ts |-> written + 1,
                                     kw |-> ScriptLine(scenario, written + 1).kw,
                                     body |-> ScriptLine(scenario, written + 1).body])]
        /\ lastOp' = Op("other", FALSE)
        /\ UNCHANGED <<dirExists, mtimes, controllerVars, latestParsedTimeStamp,
                       devices, inflight, stopRequested, historyVars, scenario>>

\* the rest of a partially flushed last line reaches the file
FlushTail ==
    \E n \in {ActiveLog} :
        /\ dirExists /\ mtimes[n] > 0
        /\ contents[n] # <<>>
        /\ Remainder(contents[n][Len(contents[n])].body) # <<>>
        /\ contents' = [contents EXCEPT ![n][Len(contents[n])].body = @ \o Remainder(@)]
        /\ lastOp' = Op("other", FALSE)
        /\ UNCHANGED <<dirExists, mtimes, written, controllerVars,
                       latestParsedTimeStamp, devices, inflight, stopRequested,
                       historyVars, scenario>>

\* The program reads modification times only to order the candidates (line
\* 86), so the directory is kept up to that order: the modification time of
\* a log file is its rank among the log files that exist.
Ranked(m) ==
    [n \in FileNames |->
        IF ~NameMatches(n) \/ m[n] = 0 THEN m[n]
        ELSE 1 + Cardinality({m[o] : o \in {x \in LogNames : m[x] > 0 /\ m[x] < m[n]}})]

\* a log file is created, touched or deleted
SetMtime ==
    \E n \in LogNames, m \in 0..MaxMtime :
        /\ dirExists
        /\ n # ActiveLog => Scenarios[scenario].rotates
        /\ Ranked([mtimes EXCEPT ![n] = m]) # mtimes
        /\ mtimes' = Ranked([mtimes EXCEPT ![n] = m])
        /\ contents' = IF m = 0 THEN [contents EXCEPT ![n] = <<>>] ELSE contents
        /\ lastOp' = Op("other", FALSE)
        /\ UNCHANGED <<dirExists, written, controllerVars, latestParsedTimeStamp,
                       devices, inflight, stopRequested, historyVars, scenario>>

\* the log directory is created, holding a file that is no log of the family
CreateDir ==
    /\ ~dirExists
    /\ dirExists' = TRUE
    /\ mtimes' = [n \in FileNames |-> IF NameMatches(n) THEN 0 ELSE MaxMtime]
    /\ lastOp' = Op("other", FALSE)
    /\ UNCHANGED <<contents, written, controllerVars, latestParsedTimeStamp, devices,
                   inflight, stopRequested, historyVars, scenario>>

Next ==
    \/ Start
    \/ RetryFire
    \/ Stop
    \/ Tick
    \/ ScanComplete
    \/ WriteLine
    \/ FlushTail
    \/ SetMtime
    \/ CreateDir

Spec == Init /\ [][Next]_vars

\* The timer of line 53 fires once its delay has passed, and a readFile that
\* was started settles.  RetryOk is a firing of the timer at which the
\* directory can be listed.  ScanFair is weak fairness of ScanComplete, which
\* is enabled exactly when a call waits on its readFile, written out.
RetryOk == RetryFire /\ ~lastOp'.ioError

ScanFair == []<>(inflight = EmptyBag) \/ []<><<ScanComplete>>_vars

FairSpec == Spec /\ WF_vars(RetryOk) /\ ScanFair

(***************************************************************************)
(* Notions the properties are stated with.                                 *)
(***************************************************************************)
\* this step is the end of an onLogChangedV4 call
ScanStep == BagCardinality(inflight') < BagCardinality(inflight)

\* the call that finished last read the file and found a record in it
CycleHadRecord == lastCycle.outcome \in {"NoNewData", "MalformedPayload", "Merged"}

\* the indices of the record lines of a log (a keyword, then an opening and a
\* closing bracket), and the last of them
RecordLines(log) ==
    {i \in 1..Len(log) :
        /\ log[i].kw
        /\ \E j, k \in 1..Len(log[i].body) :
              j < k /\ log[i].body[j] = LB /\ log[i].body[k] = RB}
LastRecordLine(log) == log[CHOOSE i \in RecordLines(log) : \A j \in RecordLines(log) : j <= i]

\* the body of a line is a closed array of device objects without inner brackets
FlatArray(body) ==
    /\ Len(body) >= 2
    /\ body[1] = LB
    /\ body[Len(body)] = RB
    /\ \A i \in 2..(Len(body) - 1) : body[i].k = "DEV"

\* the body of a line is closed by a bracket and yet is no JSON text
ClosedNotJson(body) ==
    /\ Len(body) >= 2
    /\ body[1] = LB
    /\ body[Len(body)] = RB
    /\ \E i \in 2..(Len(body) - 1) : body[i].k = "JUNK"

\* the device objects of a flat body, in order
DevicesOf(body) == [i \in 1..(Len(body) - 2) |-> RawDevices[body[i + 1].d]]

\* the positions of a batch whose device has a battery and an identifier
Survivors(batch) ==
    {i \in 1..Len(batch) :
        /\ batch[i].hasBattery = "true"
        /\ batch[i].serialNumber \notin {"", "UNKNOWN"}
             \/ (batch[i].serialNumber = ""
                   /\ batch[i].deviceContainerId \notin {"", "UNKNOWN"})}

\* the identifier of a device that survives
IdOf(device) ==
    IF device.serialNumber # "" THEN device.serialNumber ELSE device.deviceContainerId

\* the batch the call that finished last has merged
MergedBatch == DevicesOf(LastRecordLine(lastCycle.log).body)

\* the timestamps whose payload was parsed and merged by some call
MergedStamps == {LastRecordLine(l).ts : l \in mergedLogs}

(***************************************************************************)
(* C1: the set of handles in the device store never shrinks: a handle that *)
(* is in the store stays in it, whatever step is taken (start, stop, retry,*)
(* tick, the end of a scan of any outcome).                                *)
(***************************************************************************)
C1_StoreNeverShrinks == [][DOMAIN devices \subseteq DOMAIN devices']_vars

\* a merge has ended on a store that held handles its batch does not update
C1_Witness ==
    /\ lastCycle.outcome = "Merged"
    /\ DOMAIN lastCycle.before # {}
    /\ FlatArray(LastRecordLine(lastCycle.log).body)
    /\ \A i \in Survivors(MergedBatch) : IdOf(MergedBatch[i]) \notin DOMAIN lastCycle.before
    /\ DOMAIN lastCycle.before \subseteq DOMAIN devices

(***************************************************************************)
(* C2: a merge leaves unchanged, in all fields, every store entry whose    *)
(* handle is not the handle of a record of the batch with hasBattery =     *)
(* true; so the entry of a device the batch mentions without a battery is  *)
(* neither altered nor removed.                                            *)
(***************************************************************************)
C2_MergeFrame ==
    (lastCycle.outcome = "Merged" /\ FlatArray(LastRecordLine(lastCycle.log).body)) =>
        \A h \in DOMAIN lastCycle.before :
            (\A i \in 1..Len(MergedBatch) :
                MergedBatch[i].hasBattery = "true" => IdOf(MergedBatch[i]) # h)
            => /\ h \in DOMAIN lastCycle.after
               /\ lastCycle.after[h] = lastCycle.before[h]

\* the batch mentions, without a battery, a device the store holds
C2_Witness ==
    /\ lastCycle.outcome = "Merged"
    /\ FlatArray(LastRecordLine(lastCycle.log).body)
    /\ \E i \in 1..Len(MergedBatch) :
          /\ MergedBatch[i].hasBattery # "true"
          /\ IdOf(MergedBatch[i]) \in DOMAIN lastCycle.before
          /\ lastCycle.after[IdOf(MergedBatch[i])] = lastCycle.before[IdOf(MergedBatch[i])]

(***************************************************************************)
(* C3: when a newly accepted record with a parseable payload has no device *)
(* that survives the battery and UNKNOWN filters, the store is the same    *)
(* before and after the call, and the consumer is notified exactly once,   *)
(* with the store as it is.                                                *)
(***************************************************************************)
C3_EmptyBatchNotifies ==
    (/\ lastCycle.outcome = "Merged"
     /\ FlatArray(LastRecordLine(lastCycle.log).body)
     /\ Survivors(MergedBatch) = {})
    => /\ lastCycle.after = lastCycle.before
       /\ lastCycle.notified = 1
       /\ lastCycle.snapshot = lastCycle.before

\* such a record was accepted while the store held entries
C3_Witness ==
    /\ lastCycle.outcome = "Merged"
    /\ FlatArray(LastRecordLine(lastCycle.log).body)
    /\ Survivors(MergedBatch) = {}
    /\ Len(MergedBatch) > 0
    /\ DOMAIN lastCycle.before # {}
    /\ lastCycle.notified = 1

(***************************************************************************)
(* C4: when the payload of the last record marker of the file is not valid *)
(* JSON, the call does not change the store, does not notify the consumer, *)
(* and ends with the MalformedPayload outcome.                             *)
(***************************************************************************)
C4_MalformedReported ==
    (/\ lastCycle.outcome \notin {"None", "FileReadFailure"}
     /\ RecordLines(lastCycle.log) # {}
     /\ ClosedNotJson(LastRecordLine(lastCycle.log).body))
    => /\ lastCycle.after = lastCycle.before
       /\ lastCycle.notified = 0
       /\ lastCycle.outcome = "MalformedPayload"

(***************************************************************************)
(* C5, as stated: of two calls that read identical file content at most    *)
(* one merges and notifies.                                                *)
(***************************************************************************)
C5_IdenticalContentMergedOnce ==
    [][(ScanStep /\ lastCycle'.outcome = "Merged") => lastCycle'.log \notin mergedLogs]_vars

(***************************************************************************)
(* C5, amended: when two calls that read identical file content, with a    *)
(* record in it, end one directly after the other (no other call ends in   *)
(* between), the second ends with "no new data" and changes neither the    *)
(* store nor the marker, so at most one of the two merges and notifies.    *)
(***************************************************************************)
C5_SecondOfTwoIsNoNewData ==
    [][(ScanStep /\ CycleHadRecord /\ lastCycle'.log = lastCycle.log)
        => /\ lastCycle'.outcome = "NoNewData"
           /\ lastCycle'.notified = 0
           /\ devices' = devices
           /\ latestParsedTimeStamp' = latestParsedTimeStamp]_vars

\* a call ended with "no new data" on a content another call has merged
C5_Witness ==
    /\ lastCycle.outcome = "NoNewData"
    /\ lastCycle.log \in mergedLogs
    /\ lastCycle.after = lastCycle.before
    /\ lastCycle.markerAfter = lastCycle.markerBefore

(***************************************************************************)
(* C6: one call over a log with several valid record markers merges only   *)
(* the payload of the last of them: afterwards every handle of that        *)
(* payload (with a battery) holds the level and the charging flag the last *)
(* payload gives it, and nothing of an earlier record is written.          *)
(***************************************************************************)
\* every keyword line of the log is a record with a flat array, and there
\* are at least two of them
SeveralValidMarkers(log) ==
    /\ Cardinality(RecordLines(log)) >= 2
    /\ \A i \in 1..Len(log) : log[i].kw => FlatArray(log[i].body)

\* the position of the device of the batch that is the last to bear handle h
LastBearer(batch, h) ==
    CHOOSE i \in Survivors(batch) :
        /\ IdOf(batch[i]) = h
        /\ \A j \in Survivors(batch) : IdOf(batch[j]) = h => j <= i

C6_LastMarkerWins ==
    (lastCycle.outcome = "Merged" /\ SeveralValidMarkers(lastCycle.log)) =>
        /\ lastCycle.markerAfter = LastRecordLine(lastCycle.log).ts
        /\ \A i \in Survivors(MergedBatch) :
              LET h == IdOf(MergedBatch[i])
                  d == MergedBatch[LastBearer(MergedBatch, h)]
              IN  /\ h \in DOMAIN lastCycle.after
                  /\ lastCycle.after[h].handle = h
                  /\ lastCycle.after[h].batteryPercentage =
                        (IF d.hasPowerStatus THEN d.level ELSE 0)
                  /\ lastCycle.after[h].isCharging =
                        (d.hasPowerStatus /\ d.chargingStatus = "Charging")
        /\ \A h \in DOMAIN lastCycle.after :
              (\A i \in Survivors(MergedBatch) : IdOf(MergedBatch[i]) # h)
              => h \in DOMAIN lastCycle.before /\ lastCycle.after[h] = lastCycle.before[h]

\* the first call over a log of two records, level 50 charging and then level
\* 60 not charging: the store holds level 60, not charging
C6_Witness ==
    /\ lastCycle.outcome = "Merged"
    /\ SeveralValidMarkers(lastCycle.log)
    /\ lastCycle.before = EmptyMap
    /\ lastCycle.log[1].body = BodyA50
    /\ "A" \in DOMAIN lastCycle.after
    /\ lastCycle.after["A"].batteryPercentage = 60
    /\ ~lastCycle.after["A"].isCharging

(***************************************************************************)
(* C7, as stated: right after start has run the locator, the resolved path *)
(* is a file whose name matches the pattern and whose modification time is *)
(* maximal among the matching files, or else it is empty, and it is empty  *)
(* exactly when the directory is missing or holds no matching file; no     *)
(* exception leaves the locator.                                           *)
(***************************************************************************)
AfterStart == lastOp.op \in {"start", "retry"}

ResolvedIsNewest ==
    synapseV4LogPath # NoPath =>
        /\ synapseV4LogPath \in FileNames
        /\ NameMatches(synapseV4LogPath)
        /\ mtimes[synapseV4LogPath] > 0
        /\ \A n \in FileNames :
              (NameMatches(n) /\ mtimes[n] > 0) => mtimes[n] <= mtimes[synapseV4LogPath]

NoCandidate == ~dirExists \/ \A n \in FileNames : NameMatches(n) => mtimes[n] = 0

C8_SingleRetry ==
    /\ Cardinality(timers) <= 1
    /\ (AfterStart /\ synapseV4LogPath = NoPath) =>
          /\ polls = <<>>
          /\ Cardinality(timers) = 1
          /\ watcherRetryTimeout \in timers
    /\ (AfterStart /\ synapseV4LogPath # NoPath) =>
          /\ timers = {}
          /\ Len(polls) = 1
          /\ polls[1].path = synapseV4LogPath

\* the retry has fired with no start request since the failure, and start
\* has armed the poll
C8_Witness ==
    /\ lastOp.op = "retry"
    /\ ~stopRequested
    /\ Len(polls) = 1
    /\ timers = {}
    /\ inflight # EmptyBag

(***************************************************************************)
(* C9: after an explicit stop, and until the next explicit start, no poll  *)
(* is armed and no retry is pending, so that no tick starts a scan and no  *)
(* retry runs start.                                                       *)
(***************************************************************************)
C9_StopCancels ==
    [][/\ stopRequested' => (polls' = <<>> /\ timers' = {})
       /\ (stopRequested /\ stopRequested') =>
             /\ BagCardinality(inflight') <= BagCardinality(inflight)
             /\ lastOp'.op \notin {"start", "retry"}]_vars

\* stop was requested while a poll was armed and a read outstanding
C9_Witness ==
    /\ stopRequested
    /\ synapseV4LogPath # NoPath
    /\ inflight # EmptyBag
    /\ polls = <<>>
    /\ timers = {}

(***************************************************************************)
(* C10: the dedup marker is at all times empty or the timestamp of a       *)
(* record whose payload was parsed and merged; a call that ends with a     *)
(* JSON parse failure leaves the marker unchanged.                         *)
(***************************************************************************)
C10_MarkerIsMerged ==
    /\ latestParsedTimeStamp = NoTimeStamp \/ latestParsedTimeStamp \in MergedStamps
    /\ lastCycle.outcome = "MalformedPayload" => lastCycle.markerAfter = lastCycle.markerBefore

(***************************************************************************)
(* C11: after an explicit stop, and until the next start, the resolved     *)
(* log path is empty: the stopped controller has forgotten the path.       *)
(***************************************************************************)
C11_StopForgetsPath == stopRequested => synapseV4LogPath = NoPath

(***************************************************************************)
(* C12: a call whose read was outstanding when stop was requested and that *)
(* ends after the stop is discarded: it does not change the store, does    *)
(* not advance the marker and does not notify the consumer.                *)
(***************************************************************************)
C12_ReadAfterStopDiscarded ==
    [][(ScanStep /\ stopRequested)
        => /\ devices' = devices
           /\ latestParsedTimeStamp' = latestParsedTimeStamp
           /\ lastCycle'.notified = 0]_vars

(***************************************************************************)
(* C13: while a poll is armed the resolved path does not change, whatever  *)
(* ticks, ends of scans and changes of the directory happen, a newer       *)
(* matching file included; the one step that changes it is a start (the    *)
(* stop that ends the watching is not constrained here).  At any time the  *)
(* path changes only in a step that runs start.                            *)
(***************************************************************************)
C13_PathFixedWhileWatching ==
    [][/\ (polls # <<>> /\ lastOp'.op # "start" /\ ~stopRequested')
            => synapseV4LogPath' = synapseV4LogPath
       /\ (synapseV4LogPath' # synapseV4LogPath)
            => lastOp'.op \in {"start", "retry"}]_vars

\* a scan of the watched file is under way, and has been completed before,
\* while the directory holds a newer file of the family
C13_Witness ==
    /\ polls # <<>>
    /\ synapseV4LogPath = NameMain
    /\ mtimes[NameRotated] > mtimes[NameMain]
    /\ lastOp.op = "other"
    /\ lastCycle.outcome # "None"
    /\ \E scan \in BagToSet(inflight) : scan.path = NameMain

(***************************************************************************)
(* C14: a call that ends with a malformed payload, a failed read or no     *)
(* record only skips its cycle: the poll stays armed on the same path, no  *)
(* retry is scheduled, start is not run, the store is as it was and the    *)
(* consumer is not notified.                                               *)
(***************************************************************************)
C14_FailedCycleSkipped ==
    [][(ScanStep /\ lastCycle'.outcome \in
                      {"MalformedPayload", "FileReadFailure", "NoRecordFound"})
        => /\ devices' = devices
           /\ lastCycle'.notified = 0
           /\ polls' = polls
           /\ synapseV4LogPath' = synapseV4LogPath
           /\ timers' = timers
           /\ watcherRetryTimeout' = watcherRetryTimeout
           /\ lastOp'.op \notin {"start", "retry"}]_vars

\* a payload was malformed while the poll was armed and the store held entries
C14_Witness ==
    /\ lastCycle.outcome = "MalformedPayload"
    /\ DOMAIN lastCycle.before # {}
    /\ lastCycle.after = lastCycle.before
    /\ devices = lastCycle.before
    /\ polls # <<>>
    /\ timers = {}

(***************************************************************************)
(* C15: the retry loop never gives up.  After every start that fails, the  *)
(* first or the hundredth, one retry is pending; and, the timer being      *)
(* fair, a pending retry leads to an armed poll unless a stop is requested *)
(* or no matching log file can be resolved: so once a matching file stays  *)
(* resolvable and no stop is requested, the controller comes to watch it.  *)
(***************************************************************************)
Resolvable == dirExists /\ \E n \in LogNames : mtimes[n] > 0

C15_RetryNeverGivesUp ==
    /\ []((AfterStart /\ synapseV4LogPath = NoPath)
            => (timers # {} /\ watcherRetryTimeout \in timers))
    /\ (timers # {}) ~> (polls # <<>> \/ ~Resolvable \/ stopRequested)

\* the retry has fired, start has failed again, and the next retry is pending
C15_Witness ==
    /\ lastOp.op = "retry"
    /\ synapseV4LogPath = NoPath
    /\ ~stopRequested
    /\ watcherRetryTimeout \in timers

(***************************************************************************)
(* C16: every entry of the store has a key that is not empty, is not the   *)
(* sentinel "UNKNOWN" and is the entry's own handle, and is connected; a   *)
(* device of a merged batch that has neither serial number nor container   *)
(* id, or whose identifier is "UNKNOWN", is dropped: the merge adds no key *)
(* for it and leaves every entry no other device of the batch bears as it  *)
(* was.                                                                    *)
(***************************************************************************)
C16_StoreKeysAreHandles ==
    /\ \A h \in DOMAIN devices :
          /\ h # ""
          /\ h # "UNKNOWN"
          /\ devices[h].handle = h
          /\ devices[h].isConnected
    /\ (lastCycle.outcome = "Merged" /\ FlatArray(LastRecordLine(lastCycle.log).body)) =>
          \A h \in DOMAIN lastCycle.after :
              (\A i \in Survivors(MergedBatch) : IdOf(MergedBatch[i]) # h)
              => /\ h \in DOMAIN lastCycle.before
                 /\ lastCycle.after[h] = lastCycle.before[h]

\* a batch was merged that holds, with a battery, a device without any
\* identifier and a device whose serial number is "UNKNOWN"
C16_Witness ==
    /\ lastCycle.outcome = "Merged"
    /\ FlatArray(LastRecordLine(lastCycle.log).body)
    /\ \E i \in 1..Len(MergedBatch) :
          /\ MergedBatch[i].hasBattery = "true"
          /\ MergedBatch[i].serialNumber = ""
          /\ MergedBatch[i].deviceContainerId = ""
    /\ \E i \in 1..Len(MergedBatch) :
          /\ MergedBatch[i].hasBattery = "true"
          /\ MergedBatch[i].serialNumber = "UNKNOWN"
    /\ DOMAIN devices # {}
    /\ devices = lastCycle.before

(***************************************************************************)
(* C17: the payload extracted for a record marker runs from the opening    *)
(* bracket that follows the keyword to the closing bracket that balances   *)
(* it, so that a payload whose device objects hold nested arrays is        *)
(* extracted whole.  Stated of every match the call that finished last has *)
(* made in the log it read, for the lines whose payload is closed.         *)
(***************************************************************************)
\* the index of the bracket that closes the array open at depth d before
\* position i of the body, 0 when the body ends first
RECURSIVE BalancedEnd(_, _, _)
BalancedEnd(body, i, d) ==
    IF i > Len(body) THEN 0
    ELSE IF body[i] = LB THEN BalancedEnd(body, i + 1, d + 1)
    ELSE IF body[i] = RB
         THEN IF d = 1 THEN i ELSE BalancedEnd(body, i + 1, d - 1)
    ELSE BalancedEnd(body, i + 1, d)

\* the body holds an array that is closed
HasBalanced(body) ==
    FirstIndex(body, LB) > 0 /\ BalancedEnd(body, FirstIndex(body, LB) + 1, 1) > 0

BalancedPayload(body) ==
    SubSeq(body, FirstIndex(body, LB), BalancedEnd(body, FirstIndex(body, LB) + 1, 1))

\* the line of a log that bears a timestamp
LineOf(log, ts) == log[CHOOSE i \in 1..Len(log) : log[i].ts = ts]

C17_ExtractsBalancedPayload ==
    lastCycle.outcome \notin {"None", "FileReadFailure"} =>
        \A k \in 1..Len(Matches(lastCycle.log)) :
            LET m == Matches(lastCycle.log)[k]
                body == LineOf(lastCycle.log, m.timestamp).body
            IN  HasBalanced(body) => m.jsonStr = BalancedPayload(body)

(***************************************************************************)
(* C18: when a call has found the payload of the last record malformed     *)
(* because the producer had written it in part, a later call that reads    *)
(* the file with that record, of the same timestamp, complete and valid    *)
(* sees it merged: when that later call ends, the record has been merged   *)
(* and notified, by it or before it, with no further record appended.      *)
(* (If it is not merged then, it never is, every later call reading the    *)
(* same last record.)                                                      *)
(***************************************************************************)
\* the body is one closed array, nested arrays allowed, with no foreign text
WellFormed(body) ==
    /\ Len(body) >= 2
    /\ body[1] = LB
    /\ BalancedEnd(body, 2, 1) = Len(body)
    /\ \A i \in 1..Len(body) : body[i].k \notin {"JUNK", "TS"}

C18_CompletedRecordMerged ==
    (/\ lastCycle.outcome \notin {"None", "FileReadFailure"}
     /\ lastCycle.log # <<>>
     /\ lastCycle.log[Len(lastCycle.log)].kw
     /\ lastCycle.log[Len(lastCycle.log)].ts \in partialReads
     /\ WellFormed(lastCycle.log[Len(lastCycle.log)].body))
    => \E l \in mergedLogs :
          /\ l # <<>>
          /\ l[Len(l)] = lastCycle.log[Len(lastCycle.log)]

(***************************************************************************)
(* C19, as stated: once the record of timestamp T2 has been merged, no     *)
(* call that ends later merges a record that precedes T2 in the log.       *)
(***************************************************************************)
C19_NoOlderMergeAfterNewer ==
    [][(ScanStep /\ lastCycle'.outcome = "Merged")
        => \A t \in MergedStamps : t <= LastRecordLine(lastCycle'.log).ts]_vars

(***************************************************************************)
(* C19, amended: the state is that of the merge that ends last.  A call    *)
(* whose content ends in a valid record of a timestamp other than the      *)
(* marker merges that record and sets the marker to it, be the record      *)
(* newer or older than what was merged before; and the marker goes back    *)
(* only at the end of a call that has read a content the file no longer    *)
(* has (a read started before the file was appended to).                   *)
(***************************************************************************)
\* every keyword line of the log is a record with a flat array
AllRecordsValid(log) ==
    /\ RecordLines(log) # {}
    /\ \A i \in 1..Len(log) : log[i].kw => FlatArray(log[i].body)

C19_LastCompleterWins ==
    [][ScanStep =>
        /\ (AllRecordsValid(lastCycle'.log)
              /\ LastRecordLine(lastCycle'.log).ts # latestParsedTimeStamp)
            => /\ lastCycle'.outcome = "Merged"
               /\ latestParsedTimeStamp' = LastRecordLine(lastCycle'.log).ts
        /\ (latestParsedTimeStamp' < latestParsedTimeStamp)
            => lastCycle'.log # contents[ActiveLog]]_vars

\* a call that had read the log before its second record was written ended
\* after the second record was merged: marker and store are back at the first
C19_Witness ==
    /\ lastCycle.outcome = "Merged"
    /\ AllRecordsValid(lastCycle.log)
    /\ lastCycle.markerBefore \in MergedStamps
    /\ lastCycle.markerAfter < lastCycle.markerBefore
    /\ latestParsedTimeStamp = lastCycle.markerAfter
    /\ lastCycle.log # contents[ActiveLog]
    /\ "A" \in DOMAIN lastCycle.before
    /\ lastCycle.before["A"].batteryPercentage = 60
    /\ devices["A"].batteryPercentage = 50

(***************************************************************************)
(* C20: whatever starts (repeated ones while watching included), stops and *)
(* firings of the retry have happened, at most one poll is armed; an armed *)
(* poll is armed on the resolved path, which is then not empty; and a poll *)
(* and a pending retry never exist together.                               *)
(***************************************************************************)
C20_OnePollOnResolvedPath ==
    /\ Len(polls) <= 1
    /\ polls # <<>> =>
          /\ synapseV4LogPath # NoPath
          /\ \A i \in 1..Len(polls) : polls[i].path = synapseV4LogPath
    /\ ~(polls # <<>> /\ timers # {})

\* start was requested while the poll was armed on another file, whose scan
\* is still under way: the one poll is on the newly resolved file
C20_Witness ==
    /\ lastOp.op = "start"
    /\ Len(polls) = 1
    /\ polls[1].path = NameRotated
    /\ synapseV4LogPath = NameRotated
    /\ timers = {}
    /\ \E scan \in BagToSet(inflight) : scan.path = NameMain

====
